---- MODULE Spec2Model ----
(***************************************************************************)
(* Dispatch engine of the Job Application Email Sender, in its two         *)
(* variants: EmailSender.send_emails_batch (src/app.py) and                *)
(* send_emails_generator (src/backend/app.py).  Each is a Python           *)
(* generator: the consumer resumes it, it runs to its next yield and hands *)
(* out one event.  One action of the model is one such resumption; the     *)
(* consumer may also close the generator at any suspension point.          *)
(* Strings are sequences of one-character strings.                         *)
(***************************************************************************)
EXTENDS Integers, Sequences, FiniteSets, TLC

\* ------------------------------------------------------------------ bounds
MaxTotal == 3

\* ------------------------------------------------------- program constants
MAX_EMAIL_LENGTH == 254

\* ----------------------------------------------------------------- strings
Lower == {"a","b","c","d","e","f","g","h","i","j","k","l","m",
          "n","o","p","q","r","s","t","u","v","w","x","y","z"}
Upper == {"A","B","C","D","E","F","G","H","I","J","K","L","M",
          "N","O","P","Q","R","S","T","U","V","W","X","Y","Z"}
Digit == {"0","1","2","3","4","5","6","7","8","9"}
Alpha == Lower \cup Upper
LocalChars == Alpha \cup Digit \cup {".", "_", "%", "+", "-"}
DomainChars == Alpha \cup Digit \cup {".", "-"}
Whitespace == {" ", "\t", "\n", "\r"}

AllIn(s, from, to, chars) == \A k \in from..to : s[k] \in chars

\* str.strip(): drop leading and trailing whitespace
RECURSIVE LStrip(_)
LStrip(s) == IF s # <<>> /\ Head(s) \in Whitespace THEN LStrip(Tail(s)) ELSE s

RECURSIVE RStrip(_)
RStrip(s) ==
    IF s # <<>> /\ s[Len(s)] \in Whitespace
    THEN RStrip(SubSeq(s, 1, Len(s) - 1)) ELSE s

Strip(s) == RStrip(LStrip(s))

\* EMAIL_REGEX.match(s):  ^[a-zA-Z0-9._%+-]+@[a-zA-Z0-9.-]+\.[a-zA-Z]{2,}$
\* ($ also matches just before one trailing newline)
RegexMatchUpTo(s, n) ==
    \E at \in 2..n : \E dot \in (at + 2)..(n - 2) :
        /\ AllIn(s, 1, at - 1, LocalChars)
        /\ s[at] = "@"
        /\ AllIn(s, at + 1, dot - 1, DomainChars)
        /\ s[dot] = "."
        /\ AllIn(s, dot + 1, n, Alpha)

EMAIL_REGEX_match(s) ==
    \/ RegexMatchUpTo(s, Len(s))
    \/ (s # <<>> /\ s[Len(s)] = "\n" /\ RegexMatchUpTo(s, Len(s) - 1))

\* (mutant) the argument is matched as given, without email.strip()
EmailValidator_validate_email_NoStrip(email) ==
    IF email = <<>> \/ Len(email) > MAX_EMAIL_LENGTH
    THEN FALSE
    ELSE EMAIL_REGEX_match(email)

\* EmailValidator.validate_email (src/app.py)
EmailValidator_validate_email(email) ==
    IF email = <<>> \/ Len(email) > MAX_EMAIL_LENGTH
    THEN FALSE
    ELSE EMAIL_REGEX_match(Strip(email))

\* validate_email (src/backend/app.py):
\*   '@' in email and '.' in email.split('@')[1]
HasChar(s, c) == \E k \in 1..Len(s) : s[k] = c

SplitAt1(email) ==
    LET ats == {k \in 1..Len(email) : email[k] = "@"}
        first == CHOOSE k \in ats : \A j \in ats : k <= j
        rest == {k \in ats : k > first}
        stop == IF rest = {} THEN Len(email) + 1
                ELSE CHOOSE k \in rest : \A j \in rest : k <= j
    IN SubSeq(email, first + 1, stop - 1)

validate_email(email) == HasChar(email, "@") /\ HasChar(SplitAt1(email), ".")

\* ------------------------------------------------------------- the inputs
\* "a@b.com" passes both validators, "bad" fails both, "a@b.c" passes only
\* the backend variant's check.
SampleAddrs == { <<"a","@","b",".","c","o","m">>,
                 <<"b","a","d">>,
                 <<"a","@","b",".","c">> }

RecipientLists ==
    UNION { [1..n -> SampleAddrs] : n \in 1..MaxTotal }


\* ------------------------------------------------------------- exceptions
\* An exception is its class and its text (str(e)).
Exc(cls, text) == [cls |-> cls, text |-> text]
None == Exc("None", "")

SMTPExceptionClasses ==
    {"SMTPException", "SMTPServerDisconnected", "SMTPResponseException",
     "SMTPAuthenticationError", "SMTPConnectError", "SMTPNotSupportedError",
     "SMTPRecipientsRefused", "SMTPSenderRefused", "SMTPDataError"}

IsSMTPException(e) == e.cls \in SMTPExceptionClasses
IsSMTPAuthenticationError(e) == e.cls = "SMTPAuthenticationError"

Signature == "Username and Password not accepted"
HasSignature(e) == e.text = Signature

\* What the relay and the library can answer to each call.
ConnectOutcomes ==
    {None, Exc("OSError", "timed out"),
           Exc("SMTPConnectError", "Connection refused")}
StarttlsOutcomes ==
    {None, Exc("SMTPNotSupportedError", "STARTTLS extension not supported by server.")}
LoginOutcomes ==
    {None, Exc("SMTPAuthenticationError", Signature),
           Exc("SMTPAuthenticationError", "Application-specific password required"),
           Exc("SMTPServerDisconnected", "Connection unexpectedly closed"),
           Exc("UnicodeEncodeError", "'ascii' codec can't encode character")}
BuildOutcomes == {None, Exc("Exception", "Error attaching file")}
SendmailOutcomes == {None, Exc("SMTPRecipientsRefused", "recipient refused")}
QuitOutcomes == {None, Exc("SMTPServerDisconnected", "Server not connected")}

\* ------------------------------------------------------------------ events
\* EmailSender._create_response / the json.dumps({'type': 'log', ...}) records
Log(message, level) == [type |-> "log", message |-> message, level |-> level]

\* ---- binary64 arithmetic, as Python's float does it ------------------------
\* A positive float is [a2, a1, a0, sh]: its 53-bit significand in three
\* limbs, a2 * Limb^2 + a1 * Limb + a0 (a2 of 17 bits with its top bit set,
\* a1 and a0 of 18 bits), and a shift sh, with value  significand * 2^(-sh).
Limb == 2 ^ 18
TopLimb == 2 ^ 17

Cmp(u, v) == IF u < v THEN -1 ELSE IF u = v THEN 0 ELSE 1

\* Round to nearest, ties to even: cmp tells whether what was cut off is
\* below (-1), at (0) or above (1) half a unit of the last place kept.
RoundNearestEven(a2, a1, a0, sh, cmp) ==
    LET up == cmp = 1 \/ (cmp = 0 /\ a0 % 2 = 1)
        r0 == IF up THEN a0 + 1 ELSE a0
        r1 == a1 + r0 \div Limb
        r2 == a2 + r1 \div Limb
    IN IF r2 = TopLimb
       THEN [a2 |-> TopLimb \div 2, a1 |-> 0, a0 |-> 0, sh |-> sh - 1]
       ELSE [a2 |-> r2, a1 |-> r1 % Limb, a0 |-> r0 % Limb, sh |-> sh]

\* float(k) / float(n), for integers 0 < k <= n < 2^11: long division of
\* k * 2^t (scaled into [n, 2n)) by n, 1 + 16 + 18 + 18 quotient bits
FloatDiv(k, n) ==
    LET t == CHOOSE t \in 0..11 : n <= k * 2 ^ t /\ k * 2 ^ t < 2 * n
        r0 == k * 2 ^ t - n
        d1 == (r0 * 2 ^ 16) \div n
        r1 == (r0 * 2 ^ 16) % n
        d2 == (r1 * Limb) \div n
        r2 == (r1 * Limb) % n
        d3 == (r2 * Limb) \div n
        r3 == (r2 * Limb) % n
    IN RoundNearestEven(2 ^ 16 + d1, d2, d3, 52 + t, Cmp(2 * r3, n))

\* f * 100.0: the exact product, limb by limb, cut back to 53 bits
FloatMul100(f) ==
    LET p0 == f.a0 * 100
        p1 == f.a1 * 100 + p0 \div Limb
        b2 == f.a2 * 100 + p1 \div Limb
        b1 == p1 % Limb
        b0 == p0 % Limb
        drop == IF b2 >= 2 ^ 23 THEN 7 ELSE 6
        D == 2 ^ drop
    IN RoundNearestEven(b2 \div D,
                        b1 \div D + (b2 % D) * (Limb \div D),
                        b0 \div D + (b1 % D) * (Limb \div D),
                        f.sh - drop,
                        Cmp(b0 % D, D \div 2))

\* int(g): truncation, for 0 < g < 2^17
FloatToInt(g) ==
    IF g.sh >= 53 THEN 0 ELSE g.a2 \div 2 ^ (g.sh - 36)

\* int((i / total) * 100)
ProgressPercent(k, n) == FloatToInt(FloatMul100(FloatDiv(k, n)))

Progress_PendingIgnoresFailed(k, n, s, f) ==
    [type |-> "progress", progress |-> ProgressPercent(k, n),
     total |-> n, sent |-> s, failed |-> f, pending |-> n - s]

Progress(k, n, s, f) ==
    [type |-> "progress", progress |-> ProgressPercent(k, n),
     total |-> n, sent |-> s, failed |-> f, pending |-> n - s - f]

Complete(s, f) == [type |-> "complete", sent |-> s, failed |-> f]

\* ------------------------------------------------------------------- state
VARIABLES
    variant,      \* "batch": src/app.py, "gen": src/backend/app.py
    recipients,   \* the recipient list handed to the engine
    pc,           \* the yield the generator is suspended at
    i,            \* position of the recipient last worked on (enumerate from 1)
    sent,
    failed,
    server,       \* "None" or "SMTP": the local variable server
    events,       \* the events yielded so far, in order
    calls,        \* the library calls made so far, in order
    abandoned,    \* the consumer closed the generator
    request,      \* the input of a route handler or of a function under study
    response,     \* what it returned
    other         \* the frame of a second, suspended run ("none": there is none)

\* what a step of a run does not touch
outside == <<request, response, other>>

vars == <<variant, recipients, pc, i, sent, failed, server, events, calls, abandoned,
          request, response, other>>

total == Len(recipients)

\* one library call: what was called, for which recipient position (0: none),
\* how many events had been yielded before it, and what it raised
Call(op, k, raised) == [op |-> op, rcpt |-> k, at |-> Len(events), raised |-> raised]

Init ==
    /\ variant \in {"batch", "gen"}
    /\ recipients \in RecipientLists
    /\ pc = "start"
    /\ i = 0
    /\ sent = 0
    /\ failed = 0
    /\ server = "None"
    /\ events = <<>>
    /\ calls = <<>>
    /\ abandoned = FALSE
    /\ other = "none"
    /\ request = "none"
    /\ response = "none"

Yield(e, label) == events' = Append(events, e) /\ pc' = label


\* str(e), and f'...{recipient}...'
Str(e) == <<e.text>>

\* =========================================================================
\* EmailSender.send_emails_batch (src/app.py)
\* =========================================================================

\* (mutant) the cleanup is left out
BatchFinally_NoQuit == UNCHANGED calls

\* finally: if server: try: server.quit() except: pass
BatchFinally ==
    IF server # "None"
    THEN \E q \in QuitOutcomes : calls' = Append(calls, Call("quit", 0, q))
    ELSE UNCHANGED calls

\* total, sent, failed, server are set; yield 'Starting email campaign...'
BatchStart ==
    /\ variant = "batch" /\ pc = "start"
    /\ Yield(Log(<<"Starting email campaign...">>, "info"), "b136")
    /\ UNCHANGED <<outside, variant, recipients, i, sent, failed, server, calls, abandoned>>

\* try: yield 'Connecting to ...'
BatchConnecting ==
    /\ variant = "batch" /\ pc = "b136"
    /\ Yield(Log(<<"Connecting to ", "smtp.gmail.com", "...">>, "info"), "b140")
    /\ UNCHANGED <<outside, variant, recipients, i, sent, failed, server, calls, abandoned>>

\* server = smtplib.SMTP(...); server.starttls(); yield 'Authenticating...'
\* an exception of either goes to the outer handler: yield 'Error: ...'
BatchConnect ==
    /\ variant = "batch" /\ pc = "b140"
    /\ \E c \in ConnectOutcomes :
        IF c # None
        THEN /\ server' = "None"
             /\ calls' = Append(calls, Call("SMTP", 0, c))
             /\ Yield(Log(<<"Error: ">> \o Str(c), "error"), "b215")
        ELSE \E t \in StarttlsOutcomes :
             /\ server' = "SMTP"
             /\ calls' = calls \o <<Call("SMTP", 0, None), Call("starttls", 0, t)>>
             /\ IF t # None
                THEN Yield(Log(<<"Error: ">> \o Str(t), "error"), "b215")
                ELSE Yield(Log(<<"Authenticating...">>, "info"), "b147")
    /\ UNCHANGED <<outside, variant, recipients, i, sent, failed, abandoned>>

\* try: server.login(...); yield 'Authentication successful'
\* except SMTPAuthenticationError: yield one of the two error logs
\* any other exception goes to the outer handler
BatchLogin ==
    /\ variant = "batch" /\ pc = "b147"
    /\ \E l \in LoginOutcomes :
        /\ calls' = Append(calls, Call("login", 0, l))
        /\ IF l = None
           THEN Yield(Log(<<"Authentication successful">>, "success"), "b151")
           ELSE IF IsSMTPAuthenticationError(l)
           THEN IF HasSignature(l)
                THEN Yield(Log(<<"Authentication failed! For Gmail, use an App Password, not your regular password. ",
                                 "Generate one at: https://myaccount.google.com/apppasswords">>,
                               "error"), "b155")
                ELSE Yield(Log(<<"Authentication failed: ">> \o Str(l), "error"), "b160")
           ELSE Yield(Log(<<"Error: ">> \o Str(l), "error"), "b215")
    /\ UNCHANGED <<outside, variant, recipients, i, sent, failed, server, abandoned>>

\* (mutant) the return after the authentication error log is missing: the
\* run goes on to the send loop
BatchAuthReturn_FallThrough ==
    /\ variant = "batch" /\ pc \in {"b155", "b160"}
    /\ Yield(Log(<<"Sending to ", ToString(total), " recipients...">>, "info"), "b164")
    /\ UNCHANGED <<outside, variant, recipients, i, sent, failed, server, calls, abandoned>>

\* return (after either authentication error log), through the finally
BatchAuthReturn ==
    /\ variant = "batch" /\ pc \in {"b155", "b160"}
    /\ BatchFinally
    /\ pc' = "done"
    /\ UNCHANGED <<outside, variant, recipients, i, sent, failed, server, events, abandoned>>

\* yield 'Sending to {total} recipients...'
BatchSending ==
    /\ variant = "batch" /\ pc = "b151"
    /\ Yield(Log(<<"Sending to ", ToString(total), " recipients...">>, "info"), "b164")
    /\ UNCHANGED <<outside, variant, recipients, i, sent, failed, server, calls, abandoned>>

\* (mutant) the message is built before the address is validated
BatchRecipient_BuildBeforeValidate ==
    /\ variant = "batch" /\ pc \in {"b164", "b171", "b195"}
    /\ i < total
    /\ i' = i + 1
    /\ LET k == i + 1
           recipient == recipients[k]
           pause == IF pc = "b195" THEN <<Call("sleep", i, None)>> ELSE <<>>
       IN IF ~EmailValidator_validate_email(recipient)
          THEN /\ failed' = failed + 1
               /\ sent' = sent
               /\ calls' = calls \o pause \o <<Call("create_message", k, None)>>
               /\ Yield(Log(<<"Invalid email: ">> \o recipient, "error"), "b171")
          ELSE \E b \in BuildOutcomes :
               IF b # None
               THEN /\ failed' = failed + 1
                    /\ sent' = sent
                    /\ calls' = calls \o pause \o <<Call("create_message", k, b)>>
                    /\ Yield(Log(<<"Failed to send to ">> \o recipient \o <<": ">> \o Str(b),
                                 "error"), "b188")
               ELSE \E m \in SendmailOutcomes :
                    /\ calls' = calls \o pause \o
                                <<Call("create_message", k, None), Call("sendmail", k, m)>>
                    /\ IF m # None
                       THEN /\ failed' = failed + 1
                            /\ sent' = sent
                            /\ Yield(Log(<<"Failed to send to ">> \o recipient \o <<": ">> \o Str(m),
                                         "error"), "b188")
                       ELSE /\ sent' = sent + 1
                            /\ failed' = failed
                            /\ Yield(Log(<<"Sent to: ">> \o recipient, "success"), "b183")
    /\ UNCHANGED <<outside, variant, recipients, server, abandoned>>

\* One pass of the loop body up to its first yield, for the next recipient.
\* Reached from the yield before the loop, from an 'Invalid email' yield
\* (continue) and from a progress yield (after the sleep, which i < total
\* then implies).  The check mark and the cross that open the 'Sent to' and
\* 'Failed to send to' texts are left out of the messages.
BatchRecipient ==
    /\ variant = "batch" /\ pc \in {"b164", "b171", "b195"}
    /\ i < total
    /\ i' = i + 1
    /\ LET k == i + 1
           recipient == recipients[k]
           pause == IF pc = "b195" THEN <<Call("sleep", i, None)>> ELSE <<>>
       IN IF ~EmailValidator_validate_email(recipient)
          THEN /\ failed' = failed + 1
               /\ sent' = sent
               /\ calls' = calls \o pause
               /\ Yield(Log(<<"Invalid email: ">> \o recipient, "error"), "b171")
          ELSE \E b \in BuildOutcomes :
               IF b # None
               THEN /\ failed' = failed + 1
                    /\ sent' = sent
                    /\ calls' = calls \o pause \o <<Call("create_message", k, b)>>
                    /\ Yield(Log(<<"Failed to send to ">> \o recipient \o <<": ">> \o Str(b),
                                 "error"), "b188")
               ELSE \E m \in SendmailOutcomes :
                    /\ calls' = calls \o pause \o
                                <<Call("create_message", k, None), Call("sendmail", k, m)>>
                    /\ IF m # None
                       THEN /\ failed' = failed + 1
                            /\ sent' = sent
                            /\ Yield(Log(<<"Failed to send to ">> \o recipient \o <<": ">> \o Str(m),
                                         "error"), "b188")
                       ELSE /\ sent' = sent + 1
                            /\ failed' = failed
                            /\ Yield(Log(<<"Sent to: ">> \o recipient, "success"), "b183")
    /\ UNCHANGED <<outside, variant, recipients, server, abandoned>>

\* progress = int((i / total) * 100); pending = ...; yield the progress record
BatchProgress ==
    /\ variant = "batch" /\ pc \in {"b183", "b188"}
    /\ Yield(Progress(i, total, sent, failed), "b195")
    /\ UNCHANGED <<outside, variant, recipients, i, sent, failed, server, calls, abandoned>>

\* the loop is exhausted: yield 'Campaign completed! ...'
BatchCompletion ==
    /\ variant = "batch" /\ pc \in {"b164", "b171", "b195"}
    /\ i = total
    /\ Yield(Log(<<"Campaign completed! Sent: ", ToString(sent), ", Failed: ", ToString(failed)>>,
                 "success"), "b209")
    /\ UNCHANGED <<outside, variant, recipients, i, sent, failed, server, calls, abandoned>>

\* yield the complete record
BatchComplete ==
    /\ variant = "batch" /\ pc = "b209"
    /\ Yield(Complete(sent, failed), "b211")
    /\ UNCHANGED <<outside, variant, recipients, i, sent, failed, server, calls, abandoned>>

\* the try block or the outer handler ends: finally, and the generator returns
BatchFinish ==
    /\ variant = "batch" /\ pc \in {"b211", "b215"}
    /\ BatchFinally
    /\ pc' = "done"
    /\ UNCHANGED <<outside, variant, recipients, i, sent, failed, server, events, abandoned>>

\* (mutant) the cleanup is code after the try statement, not a finally
\* clause: GeneratorExit passes it by
BatchClose_NoFinally ==
    /\ variant = "batch" /\ pc \notin {"start", "done"}
    /\ pc' = "done"
    /\ abandoned' = TRUE
    /\ UNCHANGED <<outside, variant, recipients, i, sent, failed, server, events, calls>>

\* The consumer closes the generator: GeneratorExit is raised at the yield it
\* is suspended at.  It is no Exception, so no handler takes it; every yield
\* but the first is inside the try, so the finally runs.  A generator that
\* has not started simply ends.
BatchClose ==
    /\ variant = "batch" /\ pc \notin {"start", "done"}
    /\ IF pc = "b136" THEN UNCHANGED calls ELSE BatchFinally
    /\ pc' = "done"
    /\ abandoned' = TRUE
    /\ UNCHANGED <<outside, variant, recipients, i, sent, failed, server, events>>


\* =========================================================================
\* send_emails_generator (src/backend/app.py)
\* =========================================================================

\* The outer handlers of send_emails_generator, by the class of e: the
\* first event each yields and the yield it is then suspended at.
GenHandler(e) ==
    IF IsSMTPAuthenticationError(e)
    THEN IF HasSignature(e)
         THEN Yield(Log(<<"Authentication failed! For Gmail, you need to use an App Password, not your regular password.">>,
                        "error"), "g203")
         ELSE Yield(Log(<<"Authentication failed: ">> \o Str(e), "error"), "g214")
    ELSE IF IsSMTPException(e)
    THEN Yield(Log(<<"SMTP error: ">> \o Str(e), "error"), "g220")
    ELSE Yield(Log(<<"Unexpected error: ">> \o Str(e), "error"), "g226")

\* total, sent, failed are set; yield 'Starting email campaign...'
GenStart ==
    /\ variant = "gen" /\ pc = "start"
    /\ Yield(Log(<<"Starting email campaign...">>, "info"), "g88")
    /\ UNCHANGED <<outside, variant, recipients, i, sent, failed, server, calls, abandoned>>

\* yield 'Connecting to SMTP server (...)...'
GenConnecting ==
    /\ variant = "gen" /\ pc = "g88"
    /\ Yield(Log(<<"Connecting to SMTP server (", "smtp.gmail.com", ")...">>, "info"), "g94")
    /\ UNCHANGED <<outside, variant, recipients, i, sent, failed, server, calls, abandoned>>

\* (mutant) an exception of server.starttls() is swallowed and the run goes
\* on to authenticate
GenConnect_IgnoreTls ==
    /\ variant = "gen" /\ pc = "g94"
    /\ \E c \in ConnectOutcomes :
        IF c # None
        THEN /\ server' = "None"
             /\ calls' = Append(calls, Call("SMTP", 0, c))
             /\ GenHandler(c)
        ELSE \E t \in StarttlsOutcomes :
             /\ server' = "SMTP"
             /\ calls' = calls \o <<Call("SMTP", 0, None), Call("starttls", 0, t)>>
             /\ Yield(Log(<<"Authenticating...">>, "info"), "g105")
    /\ UNCHANGED <<outside, variant, recipients, i, sent, failed, abandoned>>

\* try: server = smtplib.SMTP(...); server.starttls(); yield 'Authenticating...'
GenConnect ==
    /\ variant = "gen" /\ pc = "g94"
    /\ \E c \in ConnectOutcomes :
        IF c # None
        THEN /\ server' = "None"
             /\ calls' = Append(calls, Call("SMTP", 0, c))
             /\ GenHandler(c)
        ELSE \E t \in StarttlsOutcomes :
             /\ server' = "SMTP"
             /\ calls' = calls \o <<Call("SMTP", 0, None), Call("starttls", 0, t)>>
             /\ IF t # None
                THEN GenHandler(t)
                ELSE Yield(Log(<<"Authenticating...">>, "info"), "g105")
    /\ UNCHANGED <<outside, variant, recipients, i, sent, failed, abandoned>>

\* try: server.login(...); yield 'Successfully authenticated'
\* except Exception as auth_error: yield 'Authentication failed: ...'
GenLogin ==
    /\ variant = "gen" /\ pc = "g105"
    /\ \E l \in LoginOutcomes :
        /\ calls' = Append(calls, Call("login", 0, l))
        /\ IF l = None
           THEN Yield(Log(<<"Successfully authenticated">>, "success"), "g114")
           ELSE Yield(Log(<<"Authentication failed: ">> \o Str(l), "error"), "g120")
    /\ UNCHANGED <<outside, variant, recipients, i, sent, failed, server, abandoned>>

\* (mutant) the inner handler does not re-raise: the run falls out of the
\* inner try and goes on to the loop
GenAuthReraise_NoRaise ==
    /\ variant = "gen" /\ pc = "g120"
    /\ Yield(Log(<<"Starting to send emails to ", ToString(total), " recipients">>, "info"), "g127")
    /\ UNCHANGED <<outside, variant, recipients, i, sent, failed, server, calls, abandoned>>

\* raise (inside the inner handler): the login exception reaches the outer
\* handlers
GenAuthReraise ==
    /\ variant = "gen" /\ pc = "g120"
    /\ GenHandler(calls[Len(calls)].raised)
    /\ UNCHANGED <<outside, variant, recipients, i, sent, failed, server, calls, abandoned>>

\* the second line of the App Password hint
GenAuthHint ==
    /\ variant = "gen" /\ pc = "g203"
    /\ Yield(Log(<<"Please go to https://myaccount.google.com/apppasswords to generate one.">>,
                 "error"), "g208")
    /\ UNCHANGED <<outside, variant, recipients, i, sent, failed, server, calls, abandoned>>

\* yield 'Starting to send emails to {total} recipients'
GenSending ==
    /\ variant = "gen" /\ pc = "g114"
    /\ Yield(Log(<<"Starting to send emails to ", ToString(total), " recipients">>, "info"), "g127")
    /\ UNCHANGED <<outside, variant, recipients, i, sent, failed, server, calls, abandoned>>

\* (mutant) sent is incremented before server.sendmail is called, so a refused
\* submission counts as sent and as failed
GenRecipient_SentBeforeSubmit ==
    /\ variant = "gen" /\ pc \in {"g127", "g172"}
    /\ i < total
    /\ i' = i + 1
    /\ LET k == i + 1
           recipient == recipients[k]
           pause == IF pc = "g172" THEN <<Call("sleep", i, None)>> ELSE <<>>
       IN IF ~validate_email(recipient)
          THEN /\ failed' = failed + 1
               /\ sent' = sent
               /\ calls' = calls \o pause
               /\ Yield(Log(<<"Invalid email: ">> \o recipient, "error"), "g138")
          ELSE \E b \in BuildOutcomes :
               IF b # None
               THEN /\ failed' = failed + 1
                    /\ sent' = sent
                    /\ calls' = calls \o pause \o
                                <<Call("create_message_with_attachment", k, b)>>
                    /\ Yield(Log(<<"Failed to send to ">> \o recipient \o <<": ">> \o Str(b),
                                 "error"), "g162")
               ELSE \E m \in SendmailOutcomes :
                    /\ calls' = calls \o pause \o
                                <<Call("create_message_with_attachment", k, None),
                                  Call("sendmail", k, m)>>
                    /\ IF m # None
                       THEN /\ failed' = failed + 1
                            /\ sent' = sent + 1
                            /\ Yield(Log(<<"Failed to send to ">> \o recipient \o <<": ">> \o Str(m),
                                         "error"), "g162")
                       ELSE /\ sent' = sent + 1
                            /\ failed' = failed
                            /\ Yield(Log(<<"Email sent to: ">> \o recipient, "success"), "g154")
    /\ UNCHANGED <<outside, variant, recipients, server, abandoned>>

\* One pass of the loop body up to its first yield, for the next recipient.
\* Reached from the yield before the loop and from a progress yield, after
\* the time.sleep(0.5) that follows every progress yield.
GenRecipient ==
    /\ variant = "gen" /\ pc \in {"g127", "g172"}
    /\ i < total
    /\ i' = i + 1
    /\ LET k == i + 1
           recipient == recipients[k]
           pause == IF pc = "g172" THEN <<Call("sleep", i, None)>> ELSE <<>>
       IN IF ~validate_email(recipient)
          THEN /\ failed' = failed + 1
               /\ sent' = sent
               /\ calls' = calls \o pause
               /\ Yield(Log(<<"Invalid email: ">> \o recipient, "error"), "g138")
          ELSE \E b \in BuildOutcomes :
               IF b # None
               THEN /\ failed' = failed + 1
                    /\ sent' = sent
                    /\ calls' = calls \o pause \o
                                <<Call("create_message_with_attachment", k, b)>>
                    /\ Yield(Log(<<"Failed to send to ">> \o recipient \o <<": ">> \o Str(b),
                                 "error"), "g162")
               ELSE \E m \in SendmailOutcomes :
                    /\ calls' = calls \o pause \o
                                <<Call("create_message_with_attachment", k, None),
                                  Call("sendmail", k, m)>>
                    /\ IF m # None
                       THEN /\ failed' = failed + 1
                            /\ sent' = sent
                            /\ Yield(Log(<<"Failed to send to ">> \o recipient \o <<": ">> \o Str(m),
                                         "error"), "g162")
                       ELSE /\ sent' = sent + 1
                            /\ failed' = failed
                            /\ Yield(Log(<<"Email sent to: ">> \o recipient, "success"), "g154")
    /\ UNCHANGED <<outside, variant, recipients, server, abandoned>>

\* pending = ...; progress = int((i / total) * 100); yield the progress record
GenProgress ==
    /\ variant = "gen" /\ pc \in {"g138", "g154", "g162"}
    /\ Yield(Progress(i, total, sent, failed), "g172")
    /\ UNCHANGED <<outside, variant, recipients, i, sent, failed, server, calls, abandoned>>

\* the loop is exhausted (after the last time.sleep(0.5)): server.quit(),
\* inside the try, then yield 'Campaign completed! ...'; an exception of
\* quit goes to the outer handlers
GenCompletion ==
    /\ variant = "gen" /\ pc \in {"g127", "g172"}
    /\ i = total
    /\ LET pause == IF pc = "g172" THEN <<Call("sleep", i, None)>> ELSE <<>>
       IN \E q \in QuitOutcomes :
            /\ calls' = calls \o pause \o <<Call("quit", 0, q)>>
            /\ IF q # None
               THEN GenHandler(q)
               ELSE Yield(Log(<<"Campaign completed! Sent: ", ToString(sent), ", Failed: ", ToString(failed)>>,
                              "success"), "g188")
    /\ UNCHANGED <<outside, variant, recipients, i, sent, failed, server, abandoned>>

\* yield the complete record
GenComplete ==
    /\ variant = "gen" /\ pc = "g188"
    /\ Yield(Complete(sent, failed), "g194")
    /\ UNCHANGED <<outside, variant, recipients, i, sent, failed, server, calls, abandoned>>

\* (mutant) server.quit() moved behind the Complete yield, still inside the
\* try: its exception is reported after Complete
GenFinish_QuitAfterComplete ==
    /\ variant = "gen" /\ pc \in {"g194", "g208", "g214", "g220", "g226"}
    /\ IF pc = "g194"
       THEN \E q \in QuitOutcomes :
               /\ calls' = Append(calls, Call("quit", 0, q))
               /\ IF q # None
                  THEN GenHandler(q)
                  ELSE pc' = "done" /\ UNCHANGED events
       ELSE pc' = "done" /\ UNCHANGED <<events, calls>>
    /\ UNCHANGED <<outside, variant, recipients, i, sent, failed, server, abandoned>>

\* the try block or an outer handler ends: the generator returns
GenFinish ==
    /\ variant = "gen" /\ pc \in {"g194", "g208", "g214", "g220", "g226"}
    /\ pc' = "done"
    /\ UNCHANGED <<outside, variant, recipients, i, sent, failed, server, events, calls, abandoned>>

\* The consumer closes the generator: GeneratorExit is raised at the yield it
\* is suspended at; no handler takes it and there is no finally.
GenClose ==
    /\ variant = "gen" /\ pc \notin {"start", "done"}
    /\ pc' = "done"
    /\ abandoned' = TRUE
    /\ UNCHANGED <<outside, variant, recipients, i, sent, failed, server, events, calls>>

\* =========================================================================
Next ==
    \/ BatchStart \/ BatchConnecting \/ BatchConnect \/ BatchLogin
    \/ BatchAuthReturn \/ BatchSending \/ BatchRecipient \/ BatchProgress
    \/ BatchCompletion \/ BatchComplete \/ BatchFinish \/ BatchClose
    \/ GenStart \/ GenConnecting \/ GenConnect \/ GenLogin \/ GenAuthReraise
    \/ GenAuthHint \/ GenSending \/ GenRecipient \/ GenProgress
    \/ GenCompletion \/ GenComplete \/ GenFinish \/ GenClose

Spec == Init /\ [][Next]_vars


\* =========================================================================
\* Two runs of send_emails_batch at once, through the one email_sender
\* =========================================================================
\* email_sender = EmailSender() holds smtp_server and smtp_port, which no
\* method assigns after __init__; total, sent, failed, server, i and the
\* recipient list are locals of each generator's frame.  The variables above
\* are the frame of the run that takes the next step, `other` is the frame of
\* the run that waits.
MaxTotalEach == 1

\* one address the validator accepts and one it rejects
AddrsForTwo == SampleAddrs \ { <<"a","@","b",".","c">> }

ListsForTwo == UNION { [1..n -> AddrsForTwo] : n \in 1..MaxTotalEach }

NewFrame(id, rs) ==
    [id |-> id, recipients |-> rs, pc |-> "start", i |-> 0, sent |-> 0, failed |-> 0,
     server |-> "None", events |-> <<>>, calls |-> <<>>, abandoned |-> FALSE]

Running ==
    [id |-> 3 - other.id, recipients |-> recipients, pc |-> pc, i |-> i, sent |-> sent,
     failed |-> failed, server |-> server, events |-> events, calls |-> calls,
     abandoned |-> abandoned]

TwoInit ==
    /\ variant = "batch"
    /\ recipients \in ListsForTwo
    /\ pc = "start"
    /\ i = 0
    /\ sent = 0
    /\ failed = 0
    /\ server = "None"
    /\ events = <<>>
    /\ calls = <<>>
    /\ abandoned = FALSE
    /\ request = "none"
    /\ response = "none"
    /\ \E rs \in ListsForTwo : other = NewFrame(2, rs)

\* (mutant) sent and failed are attributes of the shared email_sender, not
\* locals: the run that takes over finds the counts the other run left
Switch_SharedCounters ==
    /\ other.pc # "done"
    /\ other' = Running
    /\ recipients' = other.recipients
    /\ pc' = other.pc
    /\ i' = other.i
    /\ server' = other.server
    /\ events' = other.events
    /\ calls' = other.calls
    /\ abandoned' = other.abandoned
    /\ UNCHANGED <<variant, sent, failed, request, response>>

\* The scheduler lets the other thread run: its generator's frame becomes the
\* one the next step works on.
Switch ==
    /\ other.pc # "done"
    /\ other' = Running
    /\ recipients' = other.recipients
    /\ pc' = other.pc
    /\ i' = other.i
    /\ sent' = other.sent
    /\ failed' = other.failed
    /\ server' = other.server
    /\ events' = other.events
    /\ calls' = other.calls
    /\ abandoned' = other.abandoned
    /\ UNCHANGED <<variant, request, response>>

TwoNext ==
    \/ Switch
    \/ BatchStart \/ BatchConnecting \/ BatchConnect \/ BatchLogin
    \/ BatchAuthReturn \/ BatchSending \/ BatchRecipient \/ BatchProgress
    \/ BatchCompletion \/ BatchComplete \/ BatchFinish \/ BatchClose

TwoSpec == TwoInit /\ [][TwoNext]_vars

\* What send_emails_batch yields when it runs alone, as a function of its
\* recipient list and of what its library calls answered: the events fixed
\* by the calls in cs, up to the point where the next call is due.
Made(cs, op, k) == \E c \in 1..Len(cs) : cs[c].op = op /\ cs[c].rcpt = k
Outcome(cs, op, k) ==
    cs[CHOOSE c \in 1..Len(cs) : cs[c].op = op /\ cs[c].rcpt = k].raised

RECURSIVE SoloLoop(_, _, _, _, _)
SoloLoop(rs, cs, k, s, f) ==
    IF k > Len(rs)
    THEN << Log(<<"Campaign completed! Sent: ", ToString(s), ", Failed: ", ToString(f)>>,
                "success"),
            Complete(s, f) >>
    ELSE IF ~EmailValidator_validate_email(rs[k])
    THEN << Log(<<"Invalid email: ">> \o rs[k], "error") >> \o SoloLoop(rs, cs, k + 1, s, f + 1)
    ELSE IF ~Made(cs, "create_message", k)
    THEN << >>
    ELSE IF Outcome(cs, "create_message", k) # None
    THEN << Log(<<"Failed to send to ">> \o rs[k] \o <<": ">>
                    \o Str(Outcome(cs, "create_message", k)), "error"),
            Progress(k, Len(rs), s, f + 1) >> \o SoloLoop(rs, cs, k + 1, s, f + 1)
    ELSE IF ~Made(cs, "sendmail", k)
    THEN << >>
    ELSE IF Outcome(cs, "sendmail", k) # None
    THEN << Log(<<"Failed to send to ">> \o rs[k] \o <<": ">>
                    \o Str(Outcome(cs, "sendmail", k)), "error"),
            Progress(k, Len(rs), s, f + 1) >> \o SoloLoop(rs, cs, k + 1, s, f + 1)
    ELSE << Log(<<"Sent to: ">> \o rs[k], "success"),
            Progress(k, Len(rs), s + 1, f) >> \o SoloLoop(rs, cs, k + 1, s + 1, f)

SoloEvents(rs, cs) ==
    LET opening == << Log(<<"Starting email campaign...">>, "info"),
                      Log(<<"Connecting to ", "smtp.gmail.com", "...">>, "info") >>
        Failure(e) == << Log(<<"Error: ">> \o Str(e), "error") >>
    IN IF ~Made(cs, "SMTP", 0)
       THEN opening
       ELSE IF Outcome(cs, "SMTP", 0) # None
       THEN opening \o Failure(Outcome(cs, "SMTP", 0))
       ELSE IF ~Made(cs, "starttls", 0)
       THEN opening
       ELSE IF Outcome(cs, "starttls", 0) # None
       THEN opening \o Failure(Outcome(cs, "starttls", 0))
       ELSE LET connected == opening \o << Log(<<"Authenticating...">>, "info") >>
            IN IF ~Made(cs, "login", 0)
               THEN connected
               ELSE LET l == Outcome(cs, "login", 0)
                    IN IF l = None
                       THEN connected \o
                            << Log(<<"Authentication successful">>, "success"),
                               Log(<<"Sending to ", ToString(Len(rs)), " recipients...">>,
                                   "info") >> \o
                            SoloLoop(rs, cs, 1, 0, 0)
                       ELSE IF ~IsSMTPAuthenticationError(l)
                       THEN connected \o Failure(l)
                       ELSE IF HasSignature(l)
                       THEN connected \o
                            << Log(<<"Authentication failed! For Gmail, use an App Password, not your regular password. ",
                                     "Generate one at: https://myaccount.google.com/apppasswords">>,
                                   "error") >>
                       ELSE connected \o
                            << Log(<<"Authentication failed: ">> \o Str(l), "error") >>


\* =========================================================================
\* The /test-email routes: connect, upgrade, log in, quit, answer
\* =========================================================================
\* request.get_json() / request.json of a body that is the JSON null
NoData == [sender_email |-> <<"null">>, body |-> "null"]
Data(sender_email) == [sender_email |-> sender_email, body |-> "object"]

SampleSenders ==
    SampleAddrs \union
    {<<>>, <<" ">> \o <<"a", "@", "b", ".", "c", "o", "m">> \o <<" ">>,
     <<"a", "@", "b", ".", "c", "o">>, <<"x", "@", "y", ".", "o", "r", "g">>,
     <<"a", "@", "b">>}

ProbeRequests == {NoData} \union {Data(a) : a \in SampleSenders}

\* jsonify({'status': ..., 'message': ...}), code
Jsonify(status, message, code) == [code |-> code, status |-> status, message |-> message]

AppPasswordHint ==
    "Authentication failed. For Gmail, use an App Password from https://myaccount.google.com/apppasswords"

ProbeInit ==
    /\ variant \in {"test_email", "backend_test_email"}
    /\ request \in ProbeRequests
    /\ response = "none"
    /\ pc = "request"
    /\ recipients = <<>>
    /\ i = 0 /\ sent = 0 /\ failed = 0
    /\ server = "None"
    /\ events = <<>>
    /\ calls = <<>>
    /\ abandoned = FALSE
    /\ other = "none"

\* what the two except clauses of src/app.py answer to an exception
TestEmailHandler(e) ==
    IF IsSMTPAuthenticationError(e)
    THEN response' = Jsonify("error", AppPasswordHint, 401)
    ELSE response' = Jsonify("error", "Connection failed", 500)

\* test_email of src/app.py, from the request to the returned response
TestEmail ==
    /\ variant = "test_email" /\ pc = "request"
    /\ pc' = "returned"
    /\ IF request.body = "null"
       THEN /\ response' = Jsonify("error", "No data provided", 400)
            /\ UNCHANGED <<server, calls>>
       ELSE IF ~EmailValidator_validate_email(Strip(request.sender_email))
       THEN /\ response' = Jsonify("error", "Invalid email format", 400)
            /\ UNCHANGED <<server, calls>>
       ELSE \E c \in ConnectOutcomes :
            IF c # None
            THEN /\ server' = "None"
                 /\ calls' = <<Call("SMTP", 0, c)>>
                 /\ TestEmailHandler(c)
            ELSE /\ server' = "SMTP"
                 /\ \E t \in StarttlsOutcomes :
                    IF t # None
                    THEN /\ calls' = <<Call("SMTP", 0, None), Call("starttls", 0, t)>>
                         /\ TestEmailHandler(t)
                    ELSE \E l \in LoginOutcomes :
                         IF l # None
                         THEN /\ calls' = <<Call("SMTP", 0, None), Call("starttls", 0, None),
                                            Call("login", 0, l)>>
                              /\ TestEmailHandler(l)
                         ELSE \E q \in QuitOutcomes :
                              /\ calls' = <<Call("SMTP", 0, None), Call("starttls", 0, None),
                                            Call("login", 0, None), Call("quit", 0, q)>>
                              /\ IF q # None
                                 THEN TestEmailHandler(q)
                                 ELSE response' = Jsonify("success", "Authentication successful", 200)
    /\ UNCHANGED <<variant, recipients, i, sent, failed, events, abandoned, request, other>>

\* what the two except clauses of src/backend/app.py answer to an exception
BackendTestEmailHandler(e) ==
    IF IsSMTPAuthenticationError(e)
    THEN response' = Jsonify("error", AppPasswordHint, 401)
    ELSE response' = Jsonify("error", e.text, 500)

\* test_email of src/backend/app.py, from the request to the returned response
BackendTestEmail ==
    /\ variant = "backend_test_email" /\ pc = "request"
    /\ pc' = "returned"
    /\ IF request.body = "null"
       THEN /\ BackendTestEmailHandler(Exc("AttributeError",
                                           "'NoneType' object has no attribute 'get'"))
            /\ UNCHANGED <<server, calls>>
       ELSE \E c \in ConnectOutcomes :
            IF c # None
            THEN /\ server' = "None"
                 /\ calls' = <<Call("SMTP", 0, c)>>
                 /\ BackendTestEmailHandler(c)
            ELSE /\ server' = "SMTP"
                 /\ \E t \in StarttlsOutcomes :
                    IF t # None
                    THEN /\ calls' = <<Call("SMTP", 0, None), Call("starttls", 0, t)>>
                         /\ BackendTestEmailHandler(t)
                    ELSE \E l \in LoginOutcomes :
                         IF l # None
                         THEN /\ calls' = <<Call("SMTP", 0, None), Call("starttls", 0, None),
                                            Call("login", 0, l)>>
                              /\ BackendTestEmailHandler(l)
                         ELSE \E q \in QuitOutcomes :
                              /\ calls' = <<Call("SMTP", 0, None), Call("starttls", 0, None),
                                            Call("login", 0, None), Call("quit", 0, q)>>
                              /\ IF q # None
                                 THEN BackendTestEmailHandler(q)
                                 ELSE response' = Jsonify("success", "Authentication successful", 200)
    /\ UNCHANGED <<variant, recipients, i, sent, failed, events, abandoned, request, other>>

ProbeNext == TestEmail \/ BackendTestEmail

ProbeSpec == ProbeInit /\ [][ProbeNext]_vars


\* =========================================================================
\* EmailValidator.validate_email as a function of its argument
\* =========================================================================
Repeat(c, n) == [k \in 1..n |-> c]

\* an address of n characters
LongAddr(n) == Repeat("a", n - 6) \o <<"@", "b", ".", "c", "o", "m">>

ValidatorCores ==
    SampleAddrs \union
    { <<>>,
      <<"n","o","-","a","t","-","s","i","g","n">>,
      <<"a","@","b">>,
      <<"a","@","b",".","c","o">>,
      <<"@","b",".","c","o","m">>,
      <<"a","@",".","c","o","m">>,
      <<"a","@","@","b",".","c","o","m">>,
      <<"a"," ","b","@","c",".","c","o","m">>,
      <<"a","@","b",".","c","0","m">>,
      <<"a","@","b",".","c","o","m","\n","x">>,
      <<"A",".","b","+","c","_","d","%","e","-","1","@","X","-","y",".","2",".","O","r","g">>,
      LongAddr(MAX_EMAIL_LENGTH - 1),
      LongAddr(MAX_EMAIL_LENGTH),
      LongAddr(MAX_EMAIL_LENGTH + 1) }

LeadingPads == {<<>>, <<" ">>, <<"\t">>}
TrailingPads == {<<>>, <<" ">>, <<"\n">>, <<"\r", "\n">>}

ValidatorInputs ==
    {pre \o core \o post : pre \in LeadingPads, core \in ValidatorCores, post \in TrailingPads}

ValidateInit ==
    /\ variant = "validate_email"
    /\ request \in ValidatorInputs
    /\ response = "none"
    /\ pc = "call"
    /\ recipients = <<>>
    /\ i = 0 /\ sent = 0 /\ failed = 0
    /\ server = "None"
    /\ events = <<>>
    /\ calls = <<>>
    /\ abandoned = FALSE
    /\ other = "none"

\* EmailValidator.validate_email(request) returns
ValidateEmail ==
    /\ variant = "validate_email" /\ pc = "call"
    /\ response' = EmailValidator_validate_email(request)
    /\ pc' = "returned"
    /\ UNCHANGED <<variant, recipients, i, sent, failed, server, events, calls, abandoned,
                   request, other>>

ValidateNext == ValidateEmail

ValidateSpec == ValidateInit /\ [][ValidateNext]_vars


\* =========================================================================
\* The percentage of a Progress event as a function of position and total
\* =========================================================================
\* Config.MAX_RECIPIENTS: the longest list the send route hands to the engine
MAX_RECIPIENTS == 100

Positions == {[i |-> k, total |-> n] : k \in 1..MAX_RECIPIENTS, n \in 1..MAX_RECIPIENTS}

PercentInit ==
    /\ variant \in {"batch", "gen"}
    /\ request \in {p \in Positions : p.i <= p.total}
    /\ response = "none"
    /\ pc = "compute"
    /\ recipients = <<>>
    /\ i = 0 /\ sent = 0 /\ failed = 0
    /\ server = "None"
    /\ events = <<>>
    /\ calls = <<>>
    /\ abandoned = FALSE
    /\ other = "none"

\* send_emails_batch: progress = int((i / total) * 100)
BatchPercent ==
    /\ variant = "batch" /\ pc = "compute"
    /\ response' = ProgressPercent(request.i, request.total)
    /\ pc' = "returned"
    /\ UNCHANGED <<variant, recipients, i, sent, failed, server, events, calls, abandoned,
                   request, other>>

\* send_emails_generator: progress = int((i / total) * 100)
GenPercent ==
    /\ variant = "gen" /\ pc = "compute"
    /\ response' = ProgressPercent(request.i, request.total)
    /\ pc' = "returned"
    /\ UNCHANGED <<variant, recipients, i, sent, failed, server, events, calls, abandoned,
                   request, other>>

PercentNext == BatchPercent \/ GenPercent

PercentSpec == PercentInit /\ [][PercentNext]_vars


\* =========================================================================
\* The /send-emails route of src/app.py, up to the first resumption of the
\* generator it hands to the response
\* =========================================================================
MaxShort == 2

\* an element of the parsed recipients array: a JSON string or something else
Item(s) == [str |-> TRUE, value |-> s]
NonString == [str |-> FALSE, value |-> <<"5">>]

SampleItems ==
    {Item(a) : a \in SampleAddrs} \union
    {Item(<<" ">> \o <<"a","@","b",".","c","o","m">> \o <<"\n">>), NonString}

ShortItemLists == UNION { [1..n -> SampleItems] : n \in 0..MaxShort }

\* lists around the maximum
LongItemLists ==
    {Repeat(Item(<<"a","@","b",".","c","o","m">>), n) \o rest :
        n \in (MAX_RECIPIENTS - 1)..(MAX_RECIPIENTS + 1),
        rest \in { <<>>, <<Item(<<"b","a","d">>)>>,
                   <<Item(<<" ">> \o <<"a","@","b",".","c","o","m">>)>> }}

\* request.form.get('recipients', '[]') as json.loads sees it
RawRecipients ==
    {[kind |-> "not_json", items |-> <<>>], [kind |-> "not_list", items |-> <<>>]} \union
    {[kind |-> "list", items |-> l] : l \in ShortItemLists \union LongItemLists}

\* the uploaded file, by the first check of the route it fails
CvStates == {"absent", "no_filename", "not_pdf_name", "empty", "too_large",
             "not_pdf_content", "ok"}

RouteRequests ==
    [method : {"POST", "OPTIONS"},
     sender_email : {<<>>, <<"b","a","d">>, <<" ">> \o <<"a","@","b",".","c","o","m">>},
     fields : BOOLEAN,
     recipients : RawRecipients,
     cv : CvStates]

RouteInit ==
    /\ variant = "send_emails"
    /\ request \in RouteRequests
    /\ response = "none"
    /\ pc = "request"
    /\ recipients = <<>>
    /\ i = 0 /\ sent = 0 /\ failed = 0
    /\ server = "None"
    /\ events = <<>>
    /\ calls = <<>>
    /\ abandoned = FALSE
    /\ other = "none"

\* jsonify({'error': message}), code
JsonError(message, code) == [code |-> code, error |-> message, recipients |-> <<>>]

\* Response(stream_with_context(email_sender.send_emails_batch(...,
\* valid_recipients, ...)))
Stream(valid_recipients) == [code |-> 200, error |-> "", recipients |-> valid_recipients]

\* (mutant) every string of the list is kept, valid or not
ValidRecipients_Unfiltered(items) ==
    LET kept == SelectSeq(items, LAMBDA r : r.str)
    IN [k \in 1..Len(kept) |-> Strip(kept[k].value)]

\* for r in recipients: if isinstance(r, str) and validate_email(r):
\*     valid_recipients.append(r.strip())
ValidRecipients(items) ==
    LET kept == SelectSeq(items, LAMBDA r : r.str /\ EmailValidator_validate_email(r.value))
    IN [k \in 1..Len(kept) |-> Strip(kept[k].value)]

CvError ==
    [absent |-> "No CV file uploaded",
     no_filename |-> "No file selected",
     not_pdf_name |-> "Invalid file type. Only PDF files are allowed",
     empty |-> "Empty file uploaded",
     too_large |-> "File too large. Maximum size: 10.0MB",
     not_pdf_content |-> "Invalid PDF file content"]

\* send_emails, from the request to the returned response
SendEmails ==
    /\ variant = "send_emails" /\ pc = "request"
    /\ pc' = "returned"
    /\ LET sender_email == Strip(request.sender_email)
           valid_recipients == ValidRecipients(request.recipients.items)
       IN response' =
            IF request.method = "OPTIONS"
            THEN [code |-> 204, error |-> "", recipients |-> <<>>]
            ELSE IF sender_email = <<>> \/ ~request.fields
            THEN JsonError("Missing required fields", 400)
            ELSE IF ~EmailValidator_validate_email(sender_email)
            THEN JsonError("Invalid sender email format", 400)
            ELSE IF request.recipients.kind = "not_json"
            THEN JsonError("Invalid recipients format", 400)
            ELSE IF request.recipients.kind = "not_list"
            THEN JsonError("Recipients must be a list", 400)
            ELSE IF valid_recipients = <<>>
            THEN JsonError("No valid recipients found", 400)
            ELSE IF Len(valid_recipients) > MAX_RECIPIENTS
            THEN JsonError("Too many recipients. Maximum: 100", 400)
            ELSE IF request.cv # "ok"
            THEN JsonError(CvError[request.cv], 400)
            ELSE Stream(valid_recipients)
    /\ UNCHANGED <<variant, recipients, i, sent, failed, server, events, calls, abandoned,
                   request, other>>

\* The server starts to iterate the response: the generator of
\* send_emails_batch exists, with the list the route gave it, and has not run.
StreamResponse ==
    /\ variant = "send_emails" /\ pc = "returned"
    /\ response.code = 200
    /\ variant' = "batch"
    /\ recipients' = response.recipients
    /\ pc' = "start"
    /\ UNCHANGED <<i, sent, failed, server, events, calls, abandoned,
                   request, response, other>>

RouteNext == SendEmails \/ StreamResponse

RouteSpec == RouteInit /\ [][RouteNext]_vars


\* =========================================================================
\* Observations on a run
\* =========================================================================
EventIndices(type) == {j \in 1..Len(events) : events[j].type = type}
NumEvents(type) == Cardinality(EventIndices(type))
ErrorLogs == {j \in EventIndices("log") : events[j].level = "error"}

CallIndices(op) == {j \in 1..Len(calls) : calls[j].op = op}
Raised(op) == \E j \in CallIndices(op) : calls[j].raised # None
Succeeded(op) == \E j \in CallIndices(op) : calls[j].raised = None

Finished == pc = "done"
RanToEnd == Finished /\ ~abandoned
SetupFailed == Raised("SMTP") \/ Raised("starttls")

\* the log a recipient's pass through the loop body ends with
OutcomeHeads == {"Invalid email: ", "Sent to: ", "Email sent to: ", "Failed to send to "}
IsOutcomeLog(e) == e.type = "log" /\ e.message[1] \in OutcomeHeads

LastEvent == events[Len(events)]
LastProgress ==
    events[CHOOSE j \in EventIndices("progress") :
               \A h \in EventIndices("progress") : h <= j]

\* =========================================================================
\* Claims
\* =========================================================================

\* C1: in send_emails_batch, whenever the SMTP object was created, server.quit
\* has been attempted by the time the generator has ended, whatever the exit
\* path (starttls failure, authentication failure, error, exhaustion of the
\* recipients, close by the consumer), and no event follows the attempt.
C1_SessionClosedOnEveryExit ==
    (variant = "batch" /\ Finished /\ Succeeded("SMTP")) =>
        /\ Cardinality(CallIndices("quit")) = 1
        /\ calls[Len(calls)].op = "quit"
        /\ calls[Len(calls)].at = Len(events)

\* a run whose secure-channel upgrade failed, ended and closed
C1_Witness ==
    /\ variant = "batch" /\ Finished /\ ~abandoned
    /\ Raised("starttls")
    /\ CallIndices("quit") # {}

\* C2: in send_emails_batch, once authentication has succeeded, the event
\* after every recipient's outcome log is that recipient's Progress event,
\* and a run that is consumed to its end emits exactly total Progress events.
C2_ProgressAfterEveryRecipient ==
    variant = "batch" =>
        /\ \A j \in 1..(Len(events) - 1) :
               IsOutcomeLog(events[j]) => events[j + 1].type = "progress"
        /\ (RanToEnd /\ Succeeded("login")) => NumEvents("progress") = total

\* C3: in both variants every Progress event has sent + failed <= total, and
\* the last Progress event of a run consumed to its end has
\* sent + failed = total.
C3_CountersReachTotal ==
    /\ \A j \in EventIndices("progress") :
           events[j].sent + events[j].failed <= events[j].total
    /\ (RanToEnd /\ EventIndices("progress") # {}) =>
           LastProgress.sent + LastProgress.failed = total

\* C4: in both variants, a run consumed to its end in which connect, starttls
\* and login succeeded ends with the completion log followed by a Complete
\* event whose counters add up to total.
C4_CompleteUnlessSetupFails ==
    (RanToEnd /\ Succeeded("login")) =>
        /\ Len(events) >= 2
        /\ LastEvent.type = "complete"
        /\ LastEvent.sent + LastEvent.failed = total
        /\ events[Len(events) - 1].type = "log"
        /\ events[Len(events) - 1].message[1] = "Campaign completed! Sent: "

\* C5: in both variants an exception of server.quit emits no event, and the
\* run still ends as it does when quit succeeds: after a login that
\* succeeded, with the Complete event.
C5_TeardownFailureSwallowed ==
    \A q \in CallIndices("quit") :
        calls[q].raised # None =>
            /\ \A j \in ErrorLogs : j <= calls[q].at
            /\ (RanToEnd /\ Succeeded("login")) => LastEvent.type = "complete"


\* C6: in send_emails_batch, when server.login raises (with the
\* credentials-rejected text or without it), the run emits one or two error
\* logs, no Progress event and no Complete event, calls sendmail never, and
\* has attempted server.quit when it has ended.
C6_BatchAuthFailure ==
    (variant = "batch" /\ Raised("login")) =>
        /\ Cardinality(ErrorLogs) \in {1, 2}
        /\ NumEvents("progress") = 0
        /\ NumEvents("complete") = 0
        /\ CallIndices("sendmail") = {}
        /\ Finished => CallIndices("quit") # {}

\* a run whose login was rejected with the credentials-rejected text, ended
C6_Witness ==
    /\ variant = "batch" /\ RanToEnd
    /\ \E j \in CallIndices("login") :
           IsSMTPAuthenticationError(calls[j].raised) /\ HasSignature(calls[j].raised)
    /\ Cardinality(ErrorLogs) = 1
    /\ CallIndices("quit") # {}

\* C7: in send_emails_generator, when server.login raises
\* SMTPAuthenticationError with the credentials-rejected text, a run consumed
\* to its end has emitted one or two error logs, no Progress event and no
\* Complete event, and has attempted server.quit.
C7_GenAuthRejected ==
    (/\ variant = "gen" /\ RanToEnd
     /\ \E j \in CallIndices("login") :
            IsSMTPAuthenticationError(calls[j].raised) /\ HasSignature(calls[j].raised)) =>
        /\ Cardinality(ErrorLogs) \in {1, 2}
        /\ NumEvents("progress") = 0
        /\ NumEvents("complete") = 0
        /\ CallIndices("quit") # {}

\* C8: in both variants a Complete event is the last event of the sequence:
\* nothing is emitted after it, so there is at most one.
C8_CompleteIsLast ==
    \A j \in EventIndices("complete") : j = Len(events)

\* a run of the backend variant that has emitted Complete and ended
C8_Witness ==
    /\ variant = "gen" /\ Finished
    /\ NumEvents("complete") = 1

\* C9: in send_emails_batch, when the consumer closes the generator at a
\* yield after the SMTP object was created, server.quit is attempted, and
\* nothing is called after it: in particular no sendmail.
C9_AbandonStillCloses ==
    (variant = "batch" /\ abandoned) =>
        /\ Finished
        /\ Succeeded("SMTP") =>
               /\ Cardinality(CallIndices("quit")) = 1
               /\ calls[Len(calls)].op = "quit"

\* the generator closed inside the recipient loop, with recipients left
C9_Witness ==
    /\ variant = "batch" /\ abandoned
    /\ CallIndices("sendmail") # {}
    /\ i < total
    /\ CallIndices("quit") # {}

\* C10: in both variants, when smtplib.SMTP(...) or server.starttls() raises,
\* the run emits one error log, as its last event, and ends: no Progress, no
\* Complete, no login and no sendmail.
C10_SetupFailureEndsRun ==
    SetupFailed =>
        /\ Cardinality(ErrorLogs) = 1
        /\ LastEvent.type = "log" /\ LastEvent.level = "error"
        /\ NumEvents("progress") = 0
        /\ NumEvents("complete") = 0
        /\ CallIndices("login") = {}
        /\ CallIndices("sendmail") = {}
        /\ pc \in {"b215", "g220", "g226", "done"}

\* a run of the backend variant whose secure-channel upgrade failed, ended
C10_Witness ==
    /\ variant = "gen" /\ RanToEnd
    /\ Raised("starttls")
    /\ Cardinality(ErrorLogs) = 1

\* C11: in both variants every Progress event reports the length of the
\* recipient list as its total and pending = total - sent - failed, where sent
\* and failed are the recipients accepted and not accepted up to that event;
\* pending is never negative.
SentBefore(j) == Cardinality({c \in CallIndices("sendmail") :
                                calls[c].raised = None /\ calls[c].at < j})
FailedBefore(j) == Cardinality({e \in ErrorLogs : e < j /\ IsOutcomeLog(events[e])})

C11_PendingIsExact ==
    \A j \in EventIndices("progress") :
        /\ events[j].total = Len(recipients)
        /\ events[j].sent = SentBefore(j)
        /\ events[j].failed = FailedBefore(j)
        /\ events[j].pending = Len(recipients) - SentBefore(j) - FailedBefore(j)
        /\ events[j].pending >= 0

\* a Progress event with a failure behind it and recipients still pending, in
\* a run that went on to report nothing pending
C11_Witness ==
    /\ \E j \in EventIndices("progress") : events[j].failed > 0 /\ events[j].pending > 0
    /\ \E j \in EventIndices("progress") : events[j].failed > 0 /\ events[j].pending = 0

\* C12: in both variants recipients are processed strictly in input order and
\* without overlap: when work (validation, build, submit) begins on a recipient,
\* the outcome log and the Progress event of every earlier recipient have
\* already been emitted.
OutcomeLogs == {j \in 1..Len(events) : IsOutcomeLog(events[j])}
WorkOps == {"create_message", "create_message_with_attachment", "sendmail"}

C12_InOrderNoOverlap ==
    /\ \A j \in OutcomeLogs :
        LET k == Cardinality({o \in OutcomeLogs : o <= j})
        IN /\ k <= Len(recipients)
           /\ SubSeq(events[j].message, 2, 1 + Len(recipients[k])) = recipients[k]
           /\ Cardinality({p \in EventIndices("progress") : p < j}) = k - 1
    /\ \A c \in 1..Len(calls) :
        calls[c].op \in WorkOps =>
            /\ Cardinality({o \in OutcomeLogs : o <= calls[c].at}) = calls[c].rcpt - 1
            /\ Cardinality({p \in EventIndices("progress") : p <= calls[c].at})
                   = calls[c].rcpt - 1

\* C13: in both variants a message is submitted only while the session is
\* authenticated: after connect, TLS upgrade and login have all succeeded,
\* never after one of them failed, and never after the session was closed.
C13_SubmitOnlyAuthenticated ==
    \A c \in CallIndices("sendmail") :
        /\ \E l \in CallIndices("login") : l < c /\ calls[l].raised = None
        /\ \A d \in 1..(c - 1) :
            /\ calls[d].op \in {"SMTP", "starttls", "login"} => calls[d].raised = None
            /\ calls[d].op # "quit"

\* a run of the second variant that submitted a message and ended with its
\* session closed
C13_Witness ==
    /\ CallIndices("sendmail") # {}
    /\ Finished
    /\ CallIndices("quit") # {}
    /\ variant = "gen"

\* C14: in both variants the engine never takes the pacing pause after the
\* final recipient: every pause is the one that follows a recipient other than
\* the last, so none lies between the last Progress event and the completion
\* log.
C14_NoPauseAfterLast ==
    \A c \in CallIndices("sleep") :
        /\ calls[c].rcpt < Len(recipients)
        /\ ~(\E p \in EventIndices("progress") :
                /\ p <= calls[c].at
                /\ events[p].sent + events[p].failed = Len(recipients))

\* C15: in the batch variant, for every position k below the total, once work
\* on recipient k+1 has begun exactly one pacing pause has been taken for
\* position k, after recipient k's outcome log and before any build or submit
\* of recipient k+1, whether recipient k was sent, failed or invalid.
PausesFor(k) == {c \in CallIndices("sleep") : calls[c].rcpt = k}

C15_BatchPausesBetween ==
    variant = "batch" =>
        \A k \in 1..(Len(recipients) - 1) :
            i > k =>
                /\ Cardinality(PausesFor(k)) = 1
                /\ \A c \in PausesFor(k) :
                    /\ Cardinality({o \in OutcomeLogs : o <= calls[c].at}) = k
                    /\ \A d \in 1..Len(calls) :
                        (calls[d].op \in WorkOps /\ calls[d].rcpt = k + 1) => c < d

\* C16: the credential prober never submits a message, and whenever it has
\* opened a session it has called quit on it before it returns: after a
\* successful login, after a rejected login, and after any other error raised
\* once the connection was established.
C16_ProberClosesSession ==
    pc = "returned" =>
        /\ CallIndices("sendmail") = {}
        /\ Succeeded("SMTP") => CallIndices("quit") # {}

\* C17: two runs of send_emails_batch through the one email_sender, under
\* every interleaving of their steps, share no mutable state: each run's
\* session is the one it opened itself, each run's sent and failed count its
\* own recipients only, and each run's events are those the engine yields
\* alone for that run's recipient list and that run's relay responses.
IsPrefix(a, b) == Len(a) <= Len(b) /\ SubSeq(b, 1, Len(a)) = a

OwnWork(F) ==
    /\ IsPrefix(F.events, SoloEvents(F.recipients, F.calls))
    /\ (F.pc = "done" /\ ~F.abandoned) => F.events = SoloEvents(F.recipients, F.calls)
    /\ F.sent = Cardinality({c \in 1..Len(F.calls) :
                                F.calls[c].op = "sendmail" /\ F.calls[c].raised = None})
    /\ F.sent + F.failed = F.i
    /\ F.i <= Len(F.recipients)
    /\ (F.server = "SMTP") <=> (Made(F.calls, "SMTP", 0) /\ Outcome(F.calls, "SMTP", 0) = None)
    /\ Cardinality({c \in 1..Len(F.calls) : F.calls[c].op = "quit"})
           = (IF F.pc = "done" /\ F.server = "SMTP" THEN 1 ELSE 0)

C17_RunsAreIndependent == OwnWork(Running) /\ OwnWork(other)

\* both runs have submitted a message and neither has ended: one counts a
\* sent recipient, the other a failed one
C17_Witness ==
    /\ pc # "done" /\ other.pc # "done"
    /\ Made(calls, "sendmail", 1) /\ Made(other.calls, "sendmail", 1)
    /\ sent = 1 /\ failed = 0
    /\ other.sent = 0 /\ other.failed = 1

\* The shape local-part@domain stated on the whole string: one "@", before it
\* one or more local-part characters, after it a domain whose last "." is
\* followed by two or more letters and preceded by one or more domain
\* characters.
HasShape(s) ==
    LET ats == {k \in 1..Len(s) : s[k] = "@"}
        dots == {k \in 1..Len(s) : s[k] = "."}
    IN /\ Cardinality(ats) = 1
       /\ LET at == CHOOSE k \in ats : TRUE
              after == {k \in dots : k > at}
          IN /\ at >= 2
             /\ AllIn(s, 1, at - 1, LocalChars)
             /\ after # {}
             /\ LET dot == CHOOSE k \in after : \A j \in after : j <= k
                IN /\ dot >= at + 2
                   /\ AllIn(s, at + 1, dot - 1, DomainChars)
                   /\ Len(s) - dot >= 2
                   /\ AllIn(s, dot + 1, Len(s), Alpha)

\* C18 (as stated): validate_email rejects the empty string and every string
\* longer than 254 characters, and otherwise returns true exactly when the
\* string as given, without any trimming, has the shape.
C18_ValidatesAsGiven ==
    pc = "returned" =>
        response = (request # <<>> /\ Len(request) <= 254 /\ HasShape(request))

\* C18 (amended): validate_email rejects the empty string and every string
\* longer than 254 characters, and otherwise returns true exactly when the
\* string with its leading and trailing whitespace removed has the shape; it
\* always returns a Boolean; "a@b.com" is accepted, and "", "no-at-sign",
\* "a@b" and every 255-character string are rejected.
C18_ValidatesStripped ==
    pc = "returned" =>
        /\ response \in BOOLEAN
        /\ response = (request # <<>> /\ Len(request) <= 254 /\ HasShape(Strip(request)))
        /\ request = <<"a","@","b",".","c","o","m">> => response
        /\ request \in {<<>>, <<"n","o","-","a","t","-","s","i","g","n">>, <<"a","@","b">>}
               => ~response
        /\ Len(request) = 255 => ~response

\* an address with whitespace around it has been accepted
C18_Witness ==
    /\ pc = "returned"
    /\ response = TRUE
    /\ Head(request) \in Whitespace
    /\ request[Len(request)] \in Whitespace

\* C19: in both variants the percent reported for position i of total is
\* floor(100 * i / total) for every 1 <= i <= total <= 100, it is not below
\* the percent of any earlier position of the same run, and it is 100 for
\* i = total.
C19_PercentIsFloor ==
    pc = "returned" =>
        /\ response = (100 * request.i) \div request.total
        /\ \A k \in 1..request.i : ProgressPercent(k, request.total) <= response
        /\ request.i = request.total => response = 100

\* C20: in both variants each recipient changes exactly one counter by exactly
\* one: sent alone when the relay accepted the submission, failed alone when
\* the address was invalid or the build or the submission failed.  So the
\* counters never decrease, sent + failed = i once recipient i is processed,
\* sent is the number of accepted submissions, and a run that reached the loop
\* and was not abandoned has attempted every recipient whatever failed before.
AcceptedInStep ==
    \E c \in (Len(calls) + 1)..Len(calls') :
        calls'[c].op = "sendmail" /\ calls'[c].raised = None

CountersStep ==
    IF i' = i + 1
    THEN IF AcceptedInStep
         THEN sent' = sent + 1 /\ failed' = failed
         ELSE sent' = sent /\ failed' = failed + 1
    ELSE i' = i /\ sent' = sent /\ failed' = failed

CountersState ==
    /\ sent + failed = i
    /\ sent = Cardinality({c \in CallIndices("sendmail") : calls[c].raised = None})
    /\ failed = Cardinality({e \in ErrorLogs : IsOutcomeLog(events[e])})
    /\ (RanToEnd /\ Succeeded("login")) =>
           /\ i = Len(recipients)
           /\ Cardinality(OutcomeLogs) = Len(recipients)

C20_OneCounterPerRecipient == []CountersState /\ [][CountersStep]_vars

\* a run that ran to its end in which a recipient failed and a later one was
\* sent
C20_Witness ==
    /\ \E e \in ErrorLogs : IsOutcomeLog(events[e]) /\
           \E c \in CallIndices("sendmail") : calls[c].raised = None /\ calls[c].at > e
    /\ RanToEnd
    /\ sent > 0 /\ failed > 0

\* C21: in both variants a recipient whose address fails the variant's
\* validator is never built into a message and never submitted: the step that
\* processes it adds one to failed, leaves sent and the session alone, makes
\* no library call on the session, and yields one error log naming the address.
InvalidFor(r) ==
    IF variant = "batch" THEN ~EmailValidator_validate_email(r) ELSE ~validate_email(r)

InvalidStep ==
    (i' = i + 1 /\ InvalidFor(recipients[i + 1])) =>
        /\ failed' = failed + 1
        /\ sent' = sent
        /\ server' = server
        /\ events' = Append(events, Log(<<"Invalid email: ">> \o recipients[i + 1], "error"))
        /\ \A c \in (Len(calls) + 1)..Len(calls') : calls'[c].op = "sleep"

NeverBuiltNorSubmitted ==
    \A c \in 1..Len(calls) :
        calls[c].op \in WorkOps => ~InvalidFor(recipients[calls[c].rcpt])

C21_InvalidRecipientOnlyCounted == []NeverBuiltNorSubmitted /\ [][InvalidStep]_vars

\* a run of the second variant that rejected an address between two it sent to
C21_Witness ==
    /\ variant = "gen"
    /\ Len(recipients) = 3
    /\ InvalidFor(recipients[2])
    /\ sent = 2 /\ failed = 1
    /\ \E j \in ErrorLogs : events[j].message = <<"Invalid email: ">> \o recipients[2]

\* C22: the send_emails route hands send_emails_batch only a list of at least
\* 1 and at most 100 recipients, each of which passes
\* EmailValidator.validate_email; a POST whose recipients hold no valid address
\* or more than 100 valid addresses is answered with an error; and when the
\* route returns no relay session has been opened.
NumValid(raw) ==
    Cardinality({k \in 1..Len(raw.items) :
                    raw.items[k].str /\ EmailValidator_validate_email(raw.items[k].value)})

C22_RouteKeepsPreconditions ==
    /\ (variant = "send_emails" /\ pc = "returned") =>
        /\ server = "None" /\ calls = <<>>
        /\ response.code = 200 =>
            /\ Len(response.recipients) >= 1
            /\ Len(response.recipients) <= 100
            /\ \A k \in 1..Len(response.recipients) :
                   EmailValidator_validate_email(response.recipients[k])
        /\ (request.method = "POST" /\
            (NumValid(request.recipients) = 0 \/ NumValid(request.recipients) > 100)) =>
               response.code = 400 /\ response.error # ""
    /\ variant = "batch" =>
        /\ pc = "start" /\ server = "None" /\ calls = <<>>
        /\ Len(recipients) >= 1
        /\ Len(recipients) <= 100
        /\ \A k \in 1..Len(recipients) : EmailValidator_validate_email(recipients[k])

\* a run is about to start with 100 recipients, of a request that listed 101
\* entries, one of them invalid
C22_Witness ==
    /\ variant = "batch"
    /\ Len(recipients) = 100
    /\ Len(request.recipients.items) = 101
    /\ NumValid(request.recipients) = 100

====
